---- MODULE Spec2Model ----
(***************************************************************************)
(* Model of subtitle_app.py: the timestamp formatters, the colour          *)
(* converter, the SRT and ASS builders, and the Streamlit session flow     *)
(* (upload, transcribe, edit, render) that feeds them.                     *)
(*                                                                         *)
(* A Python str is a sequence of one-character strings.  A seconds value   *)
(* is a fixed-point number [sec, sub]: sec whole seconds plus sub units of *)
(* 1/SubPerMicro microsecond, sub being less than one second.             *)
(***************************************************************************)
EXTENDS Integers, Sequences, FiniteSets, TLC

VARIABLES
    uploaded_file,   \* st.file_uploader's value: a file name or "None"
    temp_file_path,  \* save_uploaded_file's result in the last run, <<>> for None
    temp_files,      \* the names of the files saved under temp_files/
    session_state,   \* st.session_state: a function on a subset of {"segments", "file_path"}
    editor_state,    \* st.data_editor's widget state: edited_rows, added_rows, deleted_rows
    sidebar,         \* the sidebar widgets' values
    whisper,         \* what load_model / model.transcribe did in the last run
    message,         \* st.success / st.error of the transcribe block in the last run
    render,          \* what the result block showed in the last run
    edited_df,       \* the data frame st.data_editor returned in the last run
    srt_content,     \* create_srt_content's result in the last run
    ass_content,     \* create_ass_content's result in the last run
    pc,              \* position of a direct call of one of the pure functions
    arg,             \* the argument of that call
    ret              \* its results

app_vars == <<uploaded_file, temp_file_path, temp_files, session_state, editor_state, sidebar,
              whisper, message, render, edited_df, srt_content, ass_content>>
call_vars == <<pc, arg, ret>>
vars == <<uploaded_file, temp_file_path, temp_files, session_state, editor_state, sidebar,
          whisper, message, render, edited_df, srt_content, ass_content, pc, arg, ret>>

----------------------------------------------------------------------------
(* Bounds of the model *)

\* resolution of a seconds value: units per microsecond
SubPerMicro == 10
\* longest colour string given to hex_to_ass_color
MaxHexLen == 8
\* longest segment text given directly to create_ass_content
MaxTextLen == 2
\* most rows of a data frame given directly to create_ass_content
MaxDfLen == 2
\* most rows added in the editor
MaxAdded == 1
\* most cells edited in the editor
MaxEdited == 1

----------------------------------------------------------------------------
(* Python str helpers *)

Digits == <<"0", "1", "2", "3", "4", "5", "6", "7", "8", "9">>

LowerCase == <<"a","b","c","d","e","f","g","h","i","j","k","l","m",
               "n","o","p","q","r","s","t","u","v","w","x","y","z">>

UpperCase == <<"A","B","C","D","E","F","G","H","I","J","K","L","M",
               "N","O","P","Q","R","S","T","U","V","W","X","Y","Z">>

\* str(n) of a non-negative int
RECURSIVE ToStr(_)
ToStr(n) ==
    IF n < 10 THEN <<Digits[n + 1]>>
    ELSE ToStr(n \div 10) \o <<Digits[(n % 10) + 1]>>

\* format spec {n:0w}: zero-padded to at least w characters, never cut
ZeroPad(n, w) ==
    LET s == ToStr(n)
    IN  IF Len(s) >= w THEN s ELSE [i \in 1..(w - Len(s)) |-> "0"] \o s

\* str.upper() of one character
UpperChar(c) ==
    IF \E i \in 1..Len(LowerCase) : LowerCase[i] = c
    THEN UpperCase[CHOOSE i \in 1..Len(LowerCase) : LowerCase[i] = c]
    ELSE c

\* str.upper()
Upper(s) == [i \in 1..Len(s) |-> UpperChar(s[i])]

\* str.lstrip(c): every leading c removed
RECURSIVE LStrip(_, _)
LStrip(s, c) ==
    IF Len(s) > 0 /\ s[1] = c THEN LStrip(Tail(s), c) ELSE s

\* str.replace(c, t) for a one-character c
RECURSIVE Replace(_, _, _)
Replace(s, c, t) ==
    IF Len(s) = 0 THEN <<>>
    ELSE (IF s[1] = c THEN t ELSE <<s[1]>>) \o Replace(Tail(s), c, t)

----------------------------------------------------------------------------
(* datetime.timedelta *)

MicrosPerSecond == 1000000
SecondsPerDay == 86400
SecondsPerHour == 3600
SecondsPerMinute == 60
MicrosPerMilli == 1000
MicrosPerCenti == 10000

\* round(n / d) to the nearest integer, ties to the even one
RoundHalfEven(n, d) ==
    LET q == n \div d
        r == n % d
    IN  IF 2 * r < d THEN q
        ELSE IF 2 * r > d THEN q + 1
        ELSE IF q % 2 = 0 THEN q ELSE q + 1

\* timedelta(seconds=s): normalised to days, seconds, microseconds, the
\* fraction rounded to the nearest microsecond (ties to even)
timedelta(s) ==
    LET us    == RoundHalfEven(s.sub, SubPerMicro)
        total == s.sec + (us \div MicrosPerSecond)
    IN  [days         |-> total \div SecondsPerDay,
         seconds      |-> total % SecondsPerDay,
         microseconds |-> us % MicrosPerSecond]

\* int(td.total_seconds())
total_seconds(td) == td.days * SecondsPerDay + td.seconds

----------------------------------------------------------------------------
(* format_timestamp, format_timestamp_ass *)

format_timestamp_rounding(seconds) ==
    LET td            == timedelta(seconds)
        total         == total_seconds(td)
        hours         == total \div SecondsPerHour
        minutes       == (total % SecondsPerHour) \div SecondsPerMinute
        secs          == total % SecondsPerMinute
        millis        == RoundHalfEven(td.microseconds, MicrosPerMilli)
    IN  ZeroPad(hours, 2) \o <<":">> \o ZeroPad(minutes, 2) \o <<":">>
            \o ZeroPad(secs, 2) \o <<",">> \o ZeroPad(millis, 3)

format_timestamp(seconds) ==
    LET td            == timedelta(seconds)
        total         == total_seconds(td)
        hours         == total \div SecondsPerHour
        minutes       == (total % SecondsPerHour) \div SecondsPerMinute
        secs          == total % SecondsPerMinute
        millis        == td.microseconds \div MicrosPerMilli
    IN  ZeroPad(hours, 2) \o <<":">> \o ZeroPad(minutes, 2) \o <<":">>
            \o ZeroPad(secs, 2) \o <<",">> \o ZeroPad(millis, 3)

format_timestamp_ass_millis(seconds) ==
    LET td            == timedelta(seconds)
        total         == total_seconds(td)
        hours         == total \div SecondsPerHour
        minutes       == (total % SecondsPerHour) \div SecondsPerMinute
        secs          == total % SecondsPerMinute
        centis        == td.microseconds \div MicrosPerMilli
    IN  ToStr(hours) \o <<":">> \o ZeroPad(minutes, 2) \o <<":">>
            \o ZeroPad(secs, 2) \o <<".">> \o ZeroPad(centis, 2)

format_timestamp_ass(seconds) ==
    LET td            == timedelta(seconds)
        total         == total_seconds(td)
        hours         == total \div SecondsPerHour
        minutes       == (total % SecondsPerHour) \div SecondsPerMinute
        secs          == total % SecondsPerMinute
        centis        == td.microseconds \div MicrosPerCenti
    IN  ToStr(hours) \o <<":">> \o ZeroPad(minutes, 2) \o <<":">>
            \o ZeroPad(secs, 2) \o <<".">> \o ZeroPad(centis, 2)

----------------------------------------------------------------------------
(* hex_to_ass_color *)

FallbackColor == <<"&","H","0","0","F","F","F","F","F","F">>

AssAlpha == <<"&","H","0","0">>

\* a variant that removes at most one leading '#'
hex_to_ass_color_one_hash(hex_color) ==
    LET h == IF Len(hex_color) > 0 /\ hex_color[1] = "#" THEN Tail(hex_color) ELSE hex_color
    IN  IF Len(h) # 6 THEN FallbackColor
        ELSE Upper(AssAlpha \o SubSeq(h, 5, 6) \o SubSeq(h, 3, 4) \o SubSeq(h, 1, 2))

\* a variant that keeps the channels in RGB order
hex_to_ass_color_rgb(hex_color) ==
    LET h == LStrip(hex_color, "#")
    IN  IF Len(h) # 6 THEN FallbackColor
        ELSE Upper(AssAlpha \o SubSeq(h, 1, 2) \o SubSeq(h, 3, 4) \o SubSeq(h, 5, 6))

hex_to_ass_color(hex_color) ==
    LET h == LStrip(hex_color, "#")
        r == SubSeq(h, 1, 2)
        g == SubSeq(h, 3, 4)
        b == SubSeq(h, 5, 6)
    IN  IF Len(h) # 6 THEN FallbackColor
        ELSE Upper(AssAlpha \o b \o g \o r)

----------------------------------------------------------------------------
(* create_srt_content, create_ass_content *)

(* A data frame is the sequence of its rows in iteration order; a row is   *)
(* [label, start, end, text], label being its index label (df.iterrows()   *)
(* yields the label, not the position).                                    *)

SrtArrow == <<" ","-","-",">"," ">>

\* the loop body: f"{idx + 1}\n{start} --> {end}\n{text}\n\n" for the i-th row
srt_block(df, i) ==
    ToStr(df[i].label + 1) \o <<"\n">>
        \o format_timestamp(df[i].start) \o SrtArrow \o format_timestamp(df[i].end) \o <<"\n">>
        \o df[i].text \o <<"\n", "\n">>

\* srt_content after the first n rows
RECURSIVE srt_loop(_, _)
srt_loop(df, n) ==
    IF n = 0 THEN <<>> ELSE srt_loop(df, n - 1) \o srt_block(df, n)

create_srt_content(df) == srt_loop(df, Len(df))

\* the header's lines before the Style line
AssHeaderHead ==
    <<"[","S","c","r","i","p","t"," ","I","n","f","o","]","\n","T","i","t","l","e",":"," ","S",
      "t","r","e","a","m","l","i","t"," ","A","u","t","o"," ","S","u","b","t","i","t","l","e",
      "s","\n","S","c","r","i","p","t","T","y","p","e",":"," ","v","4",".","0","0","+","\n","W",
      "r","a","p","S","t","y","l","e",":"," ","0","\n","S","c","a","l","e","d","B","o","r","d",
      "e","r","A","n","d","S","h","a","d","o","w",":"," ","y","e","s","\n","Y","C","b","C","r",
      " ","M","a","t","r","i","x",":"," ","N","o","n","e","\n","\n","[","V","4","+"," ","S","t",
      "y","l","e","s","]","\n","F","o","r","m","a","t",":"," ","N","a","m","e",","," ","F","o",
      "n","t","n","a","m","e",","," ","F","o","n","t","s","i","z","e",","," ","P","r","i","m",
      "a","r","y","C","o","l","o","u","r",","," ","S","e","c","o","n","d","a","r","y","C","o",
      "l","o","u","r",","," ","O","u","t","l","i","n","e","C","o","l","o","u","r",","," ","B",
      "a","c","k","C","o","l","o","u","r",","," ","B","o","l","d",","," ","I","t","a","l","i",
      "c",","," ","U","n","d","e","r","l","i","n","e",","," ","S","t","r","i","k","e","O","u",
      "t",","," ","S","c","a","l","e","X",","," ","S","c","a","l","e","Y",","," ","S","p","a",
      "c","i","n","g",","," ","A","n","g","l","e",","," ","B","o","r","d","e","r","S","t","y",
      "l","e",","," ","O","u","t","l","i","n","e",","," ","S","h","a","d","o","w",","," ","A",
      "l","i","g","n","m","e","n","t",","," ","M","a","r","g","i","n","L",","," ","M","a","r",
      "g","i","n","R",","," ","M","a","r","g","i","n","V",","," ","E","n","c","o","d","i","n",
      "g","\n">>

AssStylePrefix == <<"S","t","y","l","e",":"," ","D","e","f","a","u","l","t",",">>

AssSecondaryColour == <<"&","H","0","0","0","0","0","0","F","F">>

AssBackColour == <<"&","H","0","0","0","0","0","0","0","0">>

\* Bold, Italic, Underline, StrikeOut, ScaleX, ScaleY, Spacing, Angle, BorderStyle
AssStyleFixed == <<"0",",","0",",","0",",","0",",","1","0","0",",","1","0","0",",","0",",","0",",","1">>

\* MarginL, MarginR
AssStyleMargins == <<"1","0",",","1","0">>

\* the header's lines after the Style line
AssHeaderTail ==
    <<"\n","[","E","v","e","n","t","s","]","\n","F","o","r","m","a","t",":"," ","L","a","y","e",
      "r",","," ","S","t","a","r","t",","," ","E","n","d",","," ","S","t","y","l","e",","," ",
      "N","a","m","e",","," ","M","a","r","g","i","n","L",","," ","M","a","r","g","i","n","R",
      ","," ","M","a","r","g","i","n","V",","," ","E","f","f","e","c","t",","," ","T","e","x",
      "t","\n">>

AssDialoguePrefix == <<"D","i","a","l","o","g","u","e",":"," ","0",",">>

AssDialogueFields == <<",","D","e","f","a","u","l","t",",",",","0",",","0",",","0",",",",">>

\* the ASS line break \N
AssLineBreak == <<"\\", "N">>

\* a variant whose Style line has alignment and margin_v exchanged
ass_style_line_swapped(font_name, font_size, primary_color, outline_color, outline_width, shadow_depth, alignment, margin_v) ==
    AssStylePrefix \o font_name \o <<",">> \o ToStr(font_size) \o <<",">> \o primary_color
        \o <<",">> \o AssSecondaryColour \o <<",">> \o outline_color \o <<",">> \o AssBackColour
        \o <<",">> \o AssStyleFixed \o <<",">> \o ToStr(outline_width) \o <<",">>
        \o ToStr(shadow_depth) \o <<",">> \o ToStr(margin_v) \o <<",">> \o AssStyleMargins
        \o <<",">> \o ToStr(alignment) \o <<",", "1", "\n">>

\* the Style line of the header
ass_style_line(font_name, font_size, primary_color, outline_color, outline_width, shadow_depth, alignment, margin_v) ==
    AssStylePrefix \o font_name \o <<",">> \o ToStr(font_size) \o <<",">> \o primary_color
        \o <<",">> \o AssSecondaryColour \o <<",">> \o outline_color \o <<",">> \o AssBackColour
        \o <<",">> \o AssStyleFixed \o <<",">> \o ToStr(outline_width) \o <<",">>
        \o ToStr(shadow_depth) \o <<",">> \o ToStr(alignment) \o <<",">> \o AssStyleMargins
        \o <<",">> \o ToStr(margin_v) \o <<",", "1", "\n">>

\* a variant that leaves the text as it is
ass_event_raw_text(row) ==
    AssDialoguePrefix \o format_timestamp_ass(row.start) \o <<",">>
        \o format_timestamp_ass(row.end) \o AssDialogueFields \o row.text \o <<"\n">>

\* the loop body: f"Dialogue: 0,{start},{end},Default,,0,0,0,,{text}\n"
ass_event(row) ==
    LET start == format_timestamp_ass(row.start)
        end   == format_timestamp_ass(row.end)
        text  == Replace(row.text, "\n", AssLineBreak)
    IN  AssDialoguePrefix \o start \o <<",">> \o end \o AssDialogueFields \o text \o <<"\n">>

\* events after the first n rows
RECURSIVE ass_loop(_, _)
ass_loop(df, n) ==
    IF n = 0 THEN <<>> ELSE ass_loop(df, n - 1) \o ass_event(df[n])

create_ass_content(df, font_name, font_size, primary_color, outline_color, outline_width, shadow_depth, alignment, margin_v) ==
    LET header == AssHeaderHead
                      \o ass_style_line(font_name, font_size, primary_color, outline_color,
                                        outline_width, shadow_depth, alignment, margin_v)
                      \o AssHeaderTail
        events == ass_loop(df, Len(df))
    IN  header \o events

\* the default of the shadow_depth parameter
ShadowDepthDefault == 0

----------------------------------------------------------------------------
(* Reading a produced string back: used to state the properties *)

\* str.split(sep) for a one-character sep
Split(s, sep) ==
    LET P == {i \in 1..Len(s) : s[i] = sep}
        n == Cardinality(P)
        pos(k) == IF k = 0 THEN 0
                  ELSE IF k = n + 1 THEN Len(s) + 1
                  ELSE CHOOSE p \in P : Cardinality({q \in P : q <= p}) = k
    IN  [k \in 1..(n + 1) |-> SubSeq(s, pos(k - 1) + 1, pos(k) - 1)]

IsNumber(s) ==
    Len(s) > 0 /\ \A i \in 1..Len(s) : \E d \in 1..10 : Digits[d] = s[i]

DigitValue(c) == (CHOOSE d \in 1..10 : Digits[d] = c) - 1

RECURSIVE ParseInt(_)
ParseInt(s) ==
    IF Len(s) = 0 THEN 0
    ELSE 10 * ParseInt(SubSeq(s, 1, Len(s) - 1)) + DigitValue(s[Len(s)])

StartsWith(s, p) == Len(s) >= Len(p) /\ SubSeq(s, 1, Len(p)) = p

\* the text fields of HH:MM:SS<sep>fff
ClockParts(s, sep) ==
    LET c    == Split(s, ":")
        last == IF Len(c) = 3 THEN Split(c[3], sep) ELSE <<>>
    IN  IF Len(c) = 3 /\ Len(last) = 2 THEN <<c[1], c[2], last[1], last[2]>> ELSE <<>>

WellFormedClock(s, sep) ==
    LET p == ClockParts(s, sep)
    IN  Len(p) = 4 /\ \A i \in 1..4 : IsNumber(p[i])

\* the numeric fields of HH:MM:SS<sep>fff
ClockFields(s, sep) ==
    LET p == ClockParts(s, sep)
    IN  [h |-> ParseInt(p[1]), m |-> ParseInt(p[2]), s |-> ParseInt(p[3]), f |-> ParseInt(p[4])]

\* the seconds value s rounded to the nearest microsecond, ties to even
NearestMicro(s) ==
    LET q  == s.sub \div SubPerMicro
        r  == s.sub % SubPerMicro
        up == (2 * r > SubPerMicro) \/ (2 * r = SubPerMicro /\ q % 2 = 1)
        us == IF up THEN q + 1 ELSE q
    IN  IF us = MicrosPerSecond THEN [sec |-> s.sec + 1, us |-> 0]
        ELSE [sec |-> s.sec, us |-> us]

----------------------------------------------------------------------------
(* The Streamlit script: one action is one run of the script *)

Files == {"a.mp4", "b.wav"}

NoPath == <<>>

\* os.path.join(temp_dir, uploaded_file.name)
Path(f) == <<"temp_files", f>>

\* a seconds value of sec seconds and micro microseconds
Seconds(sec, micro) == [sec |-> sec, sub |-> micro * SubPerMicro]

TranscriptA ==
    << [start |-> Seconds(0, 0), end |-> Seconds(1, 0), text |-> <<"a">>],
       [start |-> Seconds(1, 0), end |-> Seconds(2, 500000), text |-> <<"b">>] >>

TranscriptB ==
    << [start |-> Seconds(3661, 500000), end |-> Seconds(3662, 0), text |-> <<"c", "\n", "d">>] >>

\* result['segments'] of model.transcribe for a file: silence gives no segment
WhisperResults(f) == IF f = "a.mp4" THEN {TranscriptA} ELSE {TranscriptB, <<>>}

\* pd.DataFrame(segments)[['start', 'end', 'text']]: a RangeIndex labels the rows
DataFrame(segments) ==
    [i \in 1..Len(segments) |->
        [label |-> i - 1, start |-> segments[i].start, end |-> segments[i].end,
         text |-> segments[i].text]]

\* 'text' in df.columns: a frame built from an empty list has no column
HasTextColumn(segments) == Len(segments) > 0

\* st.data_editor(edit_df, num_rows="dynamic"): the cell edits, then the added
\* rows appended with the next labels of the RangeIndex, then the rows at the
\* deleted positions dropped by label; the index is not renumbered
data_editor(edit_df, state) ==
    LET edit(i)  == CHOOSE e \in state.edited_rows : e[1] = i - 1
        edited   == [i \in 1..Len(edit_df) |->
                        IF \E e \in state.edited_rows : e[1] = i - 1
                        THEN [edit_df[i] EXCEPT !.text = edit(i)[2]]
                        ELSE edit_df[i]]
        stop     == Len(edit_df)
        added    == [k \in 1..Len(state.added_rows) |->
                        [label |-> stop + k - 1, start |-> state.added_rows[k].start,
                         end |-> state.added_rows[k].end, text |-> state.added_rows[k].text]]
        all      == edited \o added
        dropped  == {all[p + 1].label : p \in state.deleted_rows}
        keep(r)  == r.label \notin dropped
    IN  SelectSeq(all, keep)

\* the sidebar widgets and the values tried for each
Widgets == {"font_name", "font_size", "font_color_hex", "outline_width",
            "outline_color_hex", "alignment", "margin_v"}

FontSizeMin == 10
FontSizeMax == 100
FontSizeDefault == 40
OutlineWidthMin == 0
OutlineWidthMax == 10
OutlineWidthDefault == 2
MarginVMin == 0
MarginVMax == 200
MarginVDefault == 20
AlignmentDefault == 2

FontNames ==
    { <<"M","S"," ","G","o","t","h","i","c">>, <<"M","S"," ","M","i","n","c","h","o">>,
      <<"M","e","i","r","y","o">>, <<"Y","u"," ","G","o","t","h","i","c">>,
      <<"A","r","i","a","l">> }

Alignments == {2, 5, 8}

FontSizes == {FontSizeMin, FontSizeMin + 1, FontSizeDefault, FontSizeMax - 1, FontSizeMax}

OutlineWidths == {OutlineWidthMin, OutlineWidthDefault, OutlineWidthMax - 1, OutlineWidthMax}

MarginVs == {MarginVMin, MarginVMin + 9, MarginVMin + 10, MarginVDefault, MarginVMax - 1, MarginVMax}

PickedColors ==
    { <<"#","F","F","F","F","F","F">>, <<"#","0","0","0","0","0","0">>,
      <<"#","f","f","0","0","0","0">>, <<"#","1","2","a","b","3","f">> }

WidgetValues(w) ==
    CASE w = "font_name" -> FontNames
      [] w = "font_size" -> FontSizes
      [] w = "font_color_hex" -> PickedColors
      [] w = "outline_width" -> OutlineWidths
      [] w = "outline_color_hex" -> PickedColors
      [] w = "alignment" -> Alignments
      [] w = "margin_v" -> MarginVs

\* the sidebar widgets' default values
SidebarDefault ==
    [font_name |-> <<"M","S"," ","G","o","t","h","i","c">>,
     font_size |-> FontSizeDefault,
     font_color_hex |-> <<"#","F","F","F","F","F","F">>,
     outline_width |-> OutlineWidthDefault,
     outline_color_hex |-> <<"#","0","0","0","0","0","0">>,
     alignment |-> AlignmentDefault,
     margin_v |-> MarginVDefault]

EditorEmpty == [edited_rows |-> {}, added_rows |-> <<>>, deleted_rows |-> {}]

\* the call of create_ass_content with the sidebar's values
ass_from_sidebar(df, sb) ==
    LET ass_primary_color == hex_to_ass_color(sb.font_color_hex)
        ass_outline_color == hex_to_ass_color(sb.outline_color_hex)
    IN  create_ass_content(df, sb.font_name, sb.font_size, ass_primary_color,
                           ass_outline_color, sb.outline_width, ShadowDepthDefault,
                           sb.alignment, sb.margin_v)

\* the result block of the script
result_block(ss, ed, sb) ==
    IF "segments" \notin DOMAIN ss
    THEN [render |-> "none", edited_df |-> <<>>, srt_content |-> <<>>, ass_content |-> <<>>]
    ELSE IF ~HasTextColumn(ss.segments)
    THEN [render |-> "invalid data", edited_df |-> <<>>, srt_content |-> <<>>,
          ass_content |-> <<>>]
    ELSE LET df == data_editor(DataFrame(ss.segments), ed)
         IN  [render |-> "files", edited_df |-> df,
              srt_content |-> create_srt_content(df),
              ass_content |-> ass_from_sidebar(df, sb)]

ShowResult ==
    LET r == result_block(session_state', editor_state', sidebar')
    IN  /\ render' = r.render
        /\ edited_df' = r.edited_df
        /\ srt_content' = r.srt_content
        /\ ass_content' = r.ass_content

AppInit ==
    /\ uploaded_file = "None"
    /\ temp_file_path = NoPath
    /\ temp_files = {}
    /\ session_state = <<>>
    /\ editor_state = EditorEmpty
    /\ sidebar = SidebarDefault
    /\ whisper = "not called"
    /\ message = "none"
    /\ render = "none"
    /\ edited_df = <<>>
    /\ srt_content = <<>>
    /\ ass_content = <<>>

NoCall == pc = "idle" /\ arg = <<>> /\ ret = <<>>

Init == AppInit /\ NoCall

\* a file is dropped on the uploader; save_uploaded_file writes it or fails
UploadFile(f, saved) ==
    /\ uploaded_file' = f
    /\ temp_file_path' = IF saved THEN Path(f) ELSE NoPath
    /\ temp_files' = IF saved THEN temp_files \cup {f} ELSE temp_files
    /\ whisper' = "not called"
    /\ message' = "none"
    /\ UNCHANGED <<session_state, editor_state, sidebar, call_vars>>
    /\ ShowResult

\* the file is removed from the uploader
RemoveFile ==
    /\ uploaded_file # "None"
    /\ uploaded_file' = "None"
    /\ temp_file_path' = NoPath
    /\ whisper' = "not called"
    /\ message' = "none"
    /\ UNCHANGED <<temp_files, session_state, editor_state, sidebar, call_vars>>
    /\ ShowResult

\* a variant that keeps the segments already stored
session_after_success_setdefault(result) ==
    IF "segments" \in DOMAIN session_state THEN session_state
    ELSE [segments |-> result, file_path |-> temp_file_path]

\* session_state after the two assignments of the try block
session_after_success(result) ==
    [segments |-> result, file_path |-> temp_file_path]

\* a variant that stores the path before transcribe is called
session_after_error_stores_path(stage) ==
    IF stage = "transcribe raised"
    THEN [k \in DOMAIN session_state \cup {"file_path"} |->
             IF k = "file_path" THEN temp_file_path ELSE session_state[k]]
    ELSE session_state

\* session_state when load_model or transcribe raised: the except block stores nothing
session_after_error(stage) == session_state

\* the button is pressed and the transcription returns
TranscribeSucceeds(result) ==
    /\ uploaded_file # "None"
    /\ temp_file_path # NoPath
    /\ result \in WhisperResults(uploaded_file)
    /\ session_state' = session_after_success(result)
    /\ whisper' = "returned"
    /\ message' = "success"
    /\ editor_state' =
           IF "segments" \in DOMAIN session_state
                  /\ "segments" \in DOMAIN session_state'
                  /\ session_state'.segments = session_state.segments
           THEN editor_state ELSE EditorEmpty
    /\ UNCHANGED <<uploaded_file, temp_file_path, temp_files, sidebar, call_vars>>
    /\ ShowResult

\* the button is pressed and load_model or model.transcribe raises
TranscribeFails(stage) ==
    /\ uploaded_file # "None"
    /\ temp_file_path # NoPath
    /\ session_state' = session_after_error(stage)
    /\ whisper' = stage
    /\ message' = "error"
    /\ UNCHANGED <<uploaded_file, temp_file_path, temp_files, editor_state, sidebar, call_vars>>
    /\ ShowResult

\* the rows a user types into the grid, and the texts a cell is changed to
AddedRows ==
    { [start |-> Seconds(5, 0), end |-> Seconds(6, 0), text |-> <<"x">>] }

EditedTexts == { <<"e", "\n", "f">> }

\* the positions of the transcribed rows in the grid
Positions ==
    IF "segments" \in DOMAIN session_state THEN 0..(Len(session_state.segments) - 1) ELSE {}

EditorStep(ed) ==
    /\ render = "files"
    /\ editor_state' = ed
    /\ whisper' = "not called"
    /\ message' = "none"
    /\ UNCHANGED <<uploaded_file, temp_file_path, temp_files, session_state, sidebar, call_vars>>
    /\ ShowResult

\* a row is added at the bottom of the grid
EditorAddRow(row) ==
    /\ Len(editor_state.added_rows) < MaxAdded
    /\ EditorStep([editor_state EXCEPT !.added_rows = Append(@, row)])

\* the transcribed row at position p is deleted
EditorDeleteRow(p) ==
    /\ p \in Positions
    /\ p \notin editor_state.deleted_rows
    /\ EditorStep([editor_state EXCEPT !.deleted_rows = @ \cup {p}])

\* the k-th added row is deleted: the grid forgets it
EditorDeleteAddedRow(k) ==
    /\ k \in 1..Len(editor_state.added_rows)
    /\ EditorStep([editor_state EXCEPT !.added_rows =
                       SubSeq(@, 1, k - 1) \o SubSeq(@, k + 1, Len(@))])

\* the text of the transcribed row at position p is changed
EditorEditText(p, text) ==
    /\ p \in Positions
    /\ p \notin editor_state.deleted_rows
    /\ LET others == {e \in editor_state.edited_rows : e[1] # p}
       IN  /\ Cardinality(others) < MaxEdited
           /\ EditorStep([editor_state EXCEPT !.edited_rows = others \cup {<<p, text>>}])

\* the value each widget is moved to in a session, one widget at a time
OtherValue(w) ==
    CASE w = "font_name" -> <<"A","r","i","a","l">>
      [] w = "font_size" -> FontSizeMax
      [] w = "font_color_hex" -> <<"#","f","f","0","0","0","0">>
      [] w = "outline_width" -> OutlineWidthMin
      [] w = "outline_color_hex" -> <<"#","1","2","a","b","3","f">>
      [] w = "alignment" -> 8
      [] w = "margin_v" -> MarginVMin + 10

\* one sidebar widget is set to another value, the others being at their default
SidebarChange(w, v) ==
    /\ v # sidebar[w]
    /\ \A x \in Widgets \ {w} : sidebar[x] = SidebarDefault[x]
    /\ sidebar' = [sidebar EXCEPT ![w] = v]
    /\ whisper' = "not called"
    /\ message' = "none"
    /\ UNCHANGED <<uploaded_file, temp_file_path, temp_files, session_state, editor_state,
                   call_vars>>
    /\ ShowResult

Next ==
    \/ \E f \in Files, saved \in BOOLEAN : UploadFile(f, saved)
    \/ RemoveFile
    \/ \E f \in Files : \E result \in WhisperResults(f) : TranscribeSucceeds(result)
    \/ \E stage \in {"load_model raised", "transcribe raised"} : TranscribeFails(stage)
    \/ \E row \in AddedRows : EditorAddRow(row)
    \/ \E p \in Positions : EditorDeleteRow(p)
    \/ \E k \in 1..MaxAdded : EditorDeleteAddedRow(k)
    \/ \E p \in Positions, text \in EditedTexts : EditorEditText(p, text)
    \/ \E w \in Widgets : \E v \in {SidebarDefault[w], OtherValue(w)} : SidebarChange(w, v)

Spec == Init /\ [][Next]_vars

----------------------------------------------------------------------------
(* Direct calls of format_timestamp and format_timestamp_ass *)

SecSamples == {0, 1, 59, 60, 3599, 3600, 3661, 86399, 86400, 359999, 360000}

MicroSamples == {0, 1, 2, 999, 1000, 9999, 10000, 499999, 500000,
                 989999, 999599, 999600, 999998, 999999}

TsInputs ==
    {[sec |-> s, sub |-> m * SubPerMicro + t] :
        s \in SecSamples, m \in MicroSamples, t \in 0..(SubPerMicro - 1)}

InitTs ==
    /\ AppInit
    /\ pc = "ready"
    /\ arg \in TsInputs
    /\ ret = [srt |-> <<>>, ass |-> <<>>]

CallFormatTimestamp ==
    /\ pc = "ready"
    /\ ret' = [ret EXCEPT !.srt = format_timestamp(arg)]
    /\ pc' = "srt"
    /\ UNCHANGED <<arg, app_vars>>

CallFormatTimestampAss ==
    /\ pc = "srt"
    /\ ret' = [ret EXCEPT !.ass = format_timestamp_ass(arg)]
    /\ pc' = "done"
    /\ UNCHANGED <<arg, app_vars>>

NextTs == CallFormatTimestamp \/ CallFormatTimestampAss

SpecTs == InitTs /\ [][NextTs]_vars

\* C2 as claimed: format_timestamp never rounds up; HH:MM:SS is the
\* decomposition of floor(s) and mmm is the floor of the sub-second remainder
\* of s in milliseconds, for every non-negative s
C2_NeverRoundsUp ==
    pc \in {"srt", "done"} =>
        /\ WellFormedClock(ret.srt, ",")
        /\ LET f == ClockFields(ret.srt, ",")
           IN  /\ f.h = arg.sec \div SecondsPerHour
               /\ f.m = (arg.sec % SecondsPerHour) \div SecondsPerMinute
               /\ f.s = arg.sec % SecondsPerMinute
               /\ f.f = arg.sub \div (MicrosPerMilli * SubPerMicro)

\* C2 as amended: format_timestamp rounds s to the nearest microsecond (ties
\* to even) and truncates from there on: HH:MM:SS is the decomposition of
\* the floor of the rounded value (hours not wrapped at 24, minutes and
\* seconds in 0..59), mmm is the floor of its sub-second remainder in
\* milliseconds, and a value that rounds to less than the next whole second
\* never displays that next second
C2_TruncatesAfterMicroRounding ==
    pc \in {"srt", "done"} =>
        /\ WellFormedClock(ret.srt, ",")
        /\ LET f == ClockFields(ret.srt, ",")
               p == ClockParts(ret.srt, ",")
               n == NearestMicro(arg)
           IN  /\ f.h = n.sec \div SecondsPerHour
               /\ f.m = (n.sec % SecondsPerHour) \div SecondsPerMinute
               /\ f.s = n.sec % SecondsPerMinute
               /\ f.m \in 0..59 /\ f.s \in 0..59
               /\ f.f = n.us \div MicrosPerMilli
               /\ f.f \in 0..999
               /\ Len(p[1]) >= 2 /\ Len(p[2]) = 2 /\ Len(p[3]) = 2 /\ Len(p[4]) = 3
               /\ (n.sec = arg.sec =>
                      f.h * SecondsPerHour + f.m * SecondsPerMinute + f.s = arg.sec)

\* C2 witness: a remainder of 999.6 ms is shown as 999
C2_Witness ==
    /\ pc = "srt"
    /\ arg = [sec |-> 0, sub |-> 999600 * SubPerMicro]
    /\ ret.srt = <<"0","0",":","0","0",":","0","0",",","9","9","9">>

\* C3 as claimed: the ASS form has the hours, minutes and seconds of the SRT
\* form, hours unpadded, minutes and seconds on 2 digits, and cc is the floor
\* of the sub-second remainder of s in hundredths, equal to the SRT
\* milliseconds div 10
C3_SameDecomposition ==
    pc = "done" =>
        /\ WellFormedClock(ret.ass, ".")
        /\ LET a == ClockFields(ret.ass, ".")
               f == ClockFields(ret.srt, ",")
               p == ClockParts(ret.ass, ".")
           IN  /\ a.h = f.h /\ a.m = f.m /\ a.s = f.s
               /\ p[1] = ToStr(a.h) /\ Len(p[2]) = 2 /\ Len(p[3]) = 2 /\ Len(p[4]) = 2
               /\ a.f = arg.sub \div (MicrosPerCenti * SubPerMicro)
               /\ a.f = f.f \div 10

\* C3 as amended: the same, with cc the floor in hundredths of the sub-second
\* remainder of s rounded to the nearest microsecond
C3_SameDecompositionAfterMicroRounding ==
    pc = "done" =>
        /\ WellFormedClock(ret.ass, ".")
        /\ LET a == ClockFields(ret.ass, ".")
               f == ClockFields(ret.srt, ",")
               p == ClockParts(ret.ass, ".")
           IN  /\ a.h = f.h /\ a.m = f.m /\ a.s = f.s
               /\ p[1] = ToStr(a.h) /\ Len(p[2]) = 2 /\ Len(p[3]) = 2 /\ Len(p[4]) = 2
               /\ a.f = NearestMicro(arg).us \div MicrosPerCenti
               /\ a.f = f.f \div 10

\* C3 witness: 3661.5 seconds is 1:01:01.50
C3_Witness ==
    /\ pc = "done"
    /\ arg = [sec |-> 3661, sub |-> 500000 * SubPerMicro]
    /\ ret.ass = <<"1",":","0","1",":","0","1",".","5","0">>
    /\ ret.srt = <<"0","1",":","0","1",":","0","1",",","5","0","0">>

----------------------------------------------------------------------------
(* Direct calls of hex_to_ass_color *)

HexAlphabet == {"#", "0", "a", "F"}

HexDigitChars == {"0", "a", "F"}

HexInputs == UNION {[1..n -> HexAlphabet] : n \in 0..MaxHexLen}

InitColor ==
    /\ AppInit
    /\ pc = "ready"
    /\ arg \in HexInputs
    /\ ret = <<>>

CallHexToAssColor ==
    /\ pc = "ready"
    /\ ret' = hex_to_ass_color(arg)
    /\ pc' = "done"
    /\ UNCHANGED <<arg, app_vars>>

NextColor == CallHexToAssColor

SpecColor == InitColor /\ [][NextColor]_vars

\* the upper-case form of one hexadecimal digit
HexUpper(c) == IF c = "a" THEN "A" ELSE c

\* the input with one leading '#' removed, if it has one
WithoutOneHash(s) == IF Len(s) > 0 /\ s[1] = "#" THEN SubSeq(s, 2, Len(s)) ELSE s

\* the input from its first character that is not '#'
WithoutLeadingHashes(s) ==
    LET k == CHOOSE j \in 0..Len(s) :
                 /\ \A i \in 1..j : s[i] = "#"
                 /\ (j < Len(s) => s[j + 1] # "#")
    IN  SubSeq(s, k + 1, Len(s))

\* &H00 followed by the third, the second and the first pair of r, in upper case
FromPairs(r) ==
    <<"&", "H", "0", "0", HexUpper(r[5]), HexUpper(r[6]), HexUpper(r[3]),
      HexUpper(r[4]), HexUpper(r[1]), HexUpper(r[2])>>

\* C4: 6 hex digits RRGGBB, with or without a leading '#', give the
\* 10-character token &H00 BB GG RR in upper case
C4_RgbToBgr ==
    LET r == WithoutOneHash(arg)
    IN  (pc = "done" /\ Len(r) = 6 /\ \A i \in 1..6 : r[i] \in HexDigitChars) =>
            /\ Len(ret) = 10
            /\ ret = FromPairs(r)

\* C4 witness: "#FF0000" gives "&H000000FF"
C4_Witness ==
    /\ pc = "done"
    /\ arg = <<"#","F","F","0","0","0","0">>
    /\ ret = <<"&","H","0","0","0","0","0","0","F","F">>

\* C5 as claimed: with r the input less one optional leading '#', the result
\* is the fallback &H00FFFFFF when r is not 6 characters long and is built
\* from the three pairs of r when it is, whatever the characters
C5_FallbackOneHash ==
    pc = "done" =>
        LET r == WithoutOneHash(arg)
        IN  IF Len(r) # 6 THEN ret = FallbackColor ELSE ret = FromPairs(r)

\* C5 as amended: the same with r the input less every leading '#'
C5_FallbackAllHashes ==
    pc = "done" =>
        LET r == WithoutLeadingHashes(arg)
        IN  /\ Len(ret) = 10
            /\ IF Len(r) # 6 THEN ret = FallbackColor ELSE ret = FromPairs(r)

\* C5 witness: a 2-character colour falls back to opaque white
C5_Witness ==
    /\ pc = "done"
    /\ arg = <<"#","0","a">>
    /\ ret = <<"&","H","0","0","F","F","F","F","F","F">>

----------------------------------------------------------------------------
(* Direct calls of create_ass_content, with the values the sidebar allows *)

TextAlphabet == {"a", "\n"}

TextInputs == UNION {[1..n -> TextAlphabet] : n \in 0..MaxTextLen}

\* the k-th segment's times: later segments start later
StartAt(k) == Seconds(3661 * (k - 1), 250000 * (k - 1))

EndAt(k) == Seconds(3661 * (k - 1) + 1, 999999)

\* the segments with the given texts
SegmentsOf(texts) ==
    [k \in 1..Len(texts) |-> [start |-> StartAt(k), end |-> EndAt(k), text |-> texts[k]]]

DfInputs ==
    {DataFrame(SegmentsOf(x)) : x \in UNION {[1..n -> TextInputs] : n \in 0..MaxDfLen}}

StyleInputs ==
    [font_name : FontNames, font_size : FontSizes, font_color_hex : PickedColors,
     outline_width : OutlineWidths, outline_color_hex : {SidebarDefault.outline_color_hex},
     alignment : Alignments, margin_v : MarginVs]
    \cup {[SidebarDefault EXCEPT !.outline_color_hex = c] : c \in PickedColors}
    \cup {[SidebarDefault EXCEPT !.font_size = n] : n \in FontSizeMin..FontSizeMax}
    \cup {[SidebarDefault EXCEPT !.outline_width = n] : n \in OutlineWidthMin..OutlineWidthMax}
    \cup {[SidebarDefault EXCEPT !.margin_v = n] : n \in MarginVMin..MarginVMax}

AssInputs ==
    {[df |-> d, style |-> SidebarDefault] : d \in DfInputs}
    \cup {[df |-> DataFrame(TranscriptA), style |-> s] : s \in StyleInputs}

InitAss ==
    /\ AppInit
    /\ pc = "ready"
    /\ arg \in AssInputs
    /\ ret = <<>>

CallCreateAssContent ==
    /\ pc = "ready"
    /\ ret' = ass_from_sidebar(arg.df, arg.style)
    /\ pc' = "done"
    /\ UNCHANGED <<arg, app_vars>>

NextAss == CallCreateAssContent

SpecAss == InitAss /\ [][NextAss]_vars

\* the lines of a text that ends with a line break
Lines(s) ==
    LET l == Split(s, "\n")
    IN  SubSeq(l, 1, Len(l) - 1)

IsDialogue(l) == StartsWith(l, AssDialoguePrefix)

IsStyle(l) == StartsWith(l, AssStylePrefix)

\* e is text with every line break written as the two characters \N
Escapes(e, text) ==
    LET breaks(i) == Cardinality({j \in 1..(i - 1) : text[j] = "\n"})
    IN  /\ Len(e) = Len(text) + breaks(Len(text) + 1)
        /\ \A i \in 1..Len(text) :
              IF text[i] = "\n"
              THEN e[i + breaks(i)] = "\\" /\ e[i + breaks(i) + 1] = "N"
              ELSE e[i + breaks(i)] = text[i]

\* the number of lines of the header
AssHeaderLines == Len(Lines(AssHeaderHead)) + 1 + Len(Lines(AssHeaderTail))

\* C6: the events are exactly one Dialogue line per segment, in order, each
\* with the segment's ASS start and end, the style Default and the text with
\* every line break written \N; no text breaks a line
C6_OneDialoguePerSegment ==
    pc = "done" =>
        LET lines  == Lines(ret)
            events == SubSeq(lines, AssHeaderLines + 1, Len(lines))
            n      == Len(arg.df)
        IN  /\ ret[Len(ret)] = "\n"
            /\ SelectSeq(lines, IsDialogue) = events
            /\ lines[AssHeaderLines - 1] = <<"[","E","v","e","n","t","s","]">>
            /\ Len(events) = n
            /\ \A k \in 1..n :
                  LET f    == Split(events[k], ",")
                      row  == arg.df[k]
                      ninth == CHOOSE p \in 1..Len(events[k]) :
                                   /\ events[k][p] = ","
                                   /\ Cardinality({q \in 1..p : events[k][q] = ","}) = 9
                      text == SubSeq(events[k], ninth + 1, Len(events[k]))
                  IN  /\ Len(f) >= 10
                      /\ f[1] = <<"D","i","a","l","o","g","u","e",":"," ","0">>
                      /\ f[2] = format_timestamp_ass(row.start)
                      /\ f[3] = format_timestamp_ass(row.end)
                      /\ f[4] = <<"D","e","f","a","u","l","t">>
                      /\ f[5] = <<>> /\ f[9] = <<>>
                      /\ f[6] = <<"0">> /\ f[7] = <<"0">> /\ f[8] = <<"0">>
                      /\ Escapes(text, row.text)

\* C6 witness: two segments, one with a line break in its text
C6_Witness ==
    /\ pc = "done"
    /\ Len(arg.df) = 2
    /\ arg.df[1].text = <<"a", "\n">>
    /\ arg.df[2].text = <<"\n", "\n">>
    /\ arg.df[1].start # arg.df[2].start

\* C7: the header has exactly one Style: Default line, of 23 fields in the
\* order of the Format line, each style parameter in its own column
C7_StyleLine ==
    pc = "done" =>
        LET lines  == Lines(ret)
            styles == SelectSeq(lines, IsStyle)
            st     == arg.style
        IN  /\ Len(styles) = 1
            /\ lines[AssHeaderLines - 3] = styles[1]
            /\ LET f   == Split(styles[1], ",")
                   fmt == Split(lines[AssHeaderLines - 4], ",")
               IN  /\ Len(f) = 23
                   /\ Len(fmt) = 23
                   /\ fmt[2] = <<" ","F","o","n","t","n","a","m","e">>
                   /\ fmt[3] = <<" ","F","o","n","t","s","i","z","e">>
                   /\ fmt[4] = <<" ","P","r","i","m","a","r","y","C","o","l","o","u","r">>
                   /\ fmt[6] = <<" ","O","u","t","l","i","n","e","C","o","l","o","u","r">>
                   /\ fmt[17] = <<" ","O","u","t","l","i","n","e">>
                   /\ fmt[18] = <<" ","S","h","a","d","o","w">>
                   /\ fmt[19] = <<" ","A","l","i","g","n","m","e","n","t">>
                   /\ fmt[22] = <<" ","M","a","r","g","i","n","V">>
                   /\ f[1] = <<"S","t","y","l","e",":"," ","D","e","f","a","u","l","t">>
                   /\ f[2] = st.font_name
                   /\ IsNumber(f[3]) /\ ParseInt(f[3]) = st.font_size
                   /\ f[4] = hex_to_ass_color(st.font_color_hex)
                   /\ f[5] = <<"&","H","0","0","0","0","0","0","F","F">>
                   /\ f[6] = hex_to_ass_color(st.outline_color_hex)
                   /\ f[7] = <<"&","H","0","0","0","0","0","0","0","0">>
                   /\ \A i \in {8, 9, 10, 11, 14, 15} : f[i] = <<"0">>
                   /\ f[12] = <<"1","0","0">> /\ f[13] = <<"1","0","0">>
                   /\ f[16] = <<"1">>
                   /\ IsNumber(f[17]) /\ ParseInt(f[17]) = st.outline_width
                   /\ f[18] = <<"0">>
                   /\ IsNumber(f[19]) /\ ParseInt(f[19]) = st.alignment
                   /\ f[20] = <<"1","0">> /\ f[21] = <<"1","0">>
                   /\ IsNumber(f[22]) /\ ParseInt(f[22]) = st.margin_v
                   /\ f[23] = <<"1">>

\* C7 witness: a style at the ends of the sidebar's ranges
C7_Witness ==
    /\ pc = "done"
    /\ arg.style.font_size = FontSizeMax
    /\ arg.style.outline_width = OutlineWidthMax
    /\ arg.style.margin_v = MarginVMax
    /\ arg.style.alignment = 8
    /\ arg.style.font_name = <<"A","r","i","a","l">>

----------------------------------------------------------------------------
(* The session flow *)

\* the block of the i-th row, numbered i
srt_block_by_position(df, i) ==
    ToStr(i) \o <<"\n">>
        \o format_timestamp(df[i].start) \o SrtArrow \o format_timestamp(df[i].end) \o <<"\n">>
        \o df[i].text \o <<"\n", "\n">>

\* the SRT text whose k-th block is numbered k
RECURSIVE SrtNumberedByPosition(_, _)
SrtNumberedByPosition(df, n) ==
    IF n = 0 THEN <<>>
    ELSE SrtNumberedByPosition(df, n - 1) \o srt_block_by_position(df, n)

\* C1: whatever rows were added and removed in the editor, the SRT text is
\* one block per row of the edited frame, in order, the k-th numbered k
C1_NumberedByPosition ==
    render = "files" =>
        srt_content = SrtNumberedByPosition(edited_df, Len(edited_df))

\* the file a stored path names
FileOf(path) == path[2]

\* C9 as claimed: once a new file is uploaded, no render uses the segments of
\* an earlier file
C9_DiscardedOnUpload ==
    (render = "files" /\ uploaded_file # "None") =>
        session_state.file_path = Path(uploaded_file)

\* C9 as amended: the stored segments are replaced when a new file has been
\* transcribed successfully, and only then: a run whose transcription
\* succeeds stores the uploaded file's segments and path, any other run
\* leaves them as they are, and every render shows the stored segments
C9_ReplacedOnSuccess ==
    [][ /\ message' = "success" =>
              /\ DOMAIN session_state' = {"segments", "file_path"}
              /\ session_state'.file_path = Path(uploaded_file')
              /\ session_state'.segments \in WhisperResults(uploaded_file')
        /\ message' # "success" => session_state' = session_state
        /\ "segments" \in DOMAIN session_state' =>
              session_state'.segments \in WhisperResults(FileOf(session_state'.file_path))
        /\ render' = "files" =>
              \A i \in 1..Len(edited_df') :
                  edited_df'[i].label < Len(session_state'.segments) =>
                      LET seg == session_state'.segments[edited_df'[i].label + 1]
                      IN  edited_df'[i].start = seg.start /\ edited_df'[i].end = seg.end
      ]_vars

\* C9 witness: a second file has been transcribed and its segments are shown
C9_Witness ==
    /\ message = "success"
    /\ uploaded_file = "b.wav"
    /\ "a.mp4" \in temp_files
    /\ DOMAIN session_state = {"segments", "file_path"}
    /\ session_state.file_path = Path("b.wav")
    /\ session_state.segments = TranscriptB
    /\ render = "files"

\* C10: a run in which load_model or transcribe raises leaves session_state
\* as it was, reports an error and not success, and renders only if segments
\* were stored before
C10_FailureKeepsState ==
    [][ whisper' \in {"load_model raised", "transcribe raised"} =>
            /\ message' = "error"
            /\ DOMAIN session_state' = DOMAIN session_state
            /\ \A k \in DOMAIN session_state : session_state'[k] = session_state[k]
            /\ render' # "none" => "segments" \in DOMAIN session_state
            /\ "segments" \notin DOMAIN session_state => render' = "none"
      ]_vars

\* C10 witness: transcribing a second file fails and the first file's
\* segments are still stored and shown
C10_Witness ==
    /\ whisper = "transcribe raised"
    /\ message = "error"
    /\ uploaded_file = "b.wav"
    /\ DOMAIN session_state = {"segments", "file_path"}
    /\ session_state.file_path = Path("a.mp4")
    /\ session_state.segments = TranscriptA
    /\ render = "files"

====
